---- MODULE Spec2Model ----
(***************************************************************************)
(* Broadster-Live (server.js): one Node process that                       *)
(*   - checks its configuration and starts an HTTP + WebSocket listener,   *)
(*   - relays one backend stream per browser WebSocket (wss 'connection'), *)
(*   - answers POST /api/suggest with one backend completion call.         *)
(***************************************************************************)
EXTENDS Integers, Sequences, FiniteSets, TLC

\* ------------------------------------------------------------------ bounds
MaxConns == 2
MaxReqs == 2
MaxItems == 2
MaxFrames == 2

Conns == 1..MaxConns
Streams == 1..MaxConns
Reqs == 1..MaxReqs

\* ------------------------------------------------------------- JS values
\* A JavaScript value as the handlers see it: undefined, null, a number,
\* or a string (a sequence of characters).
Undefined == [t |-> "undefined"]
Null == [t |-> "null"]
Num(n) == [t |-> "number", v |-> n]
Str(s) == [t |-> "string", v |-> s]

\* `!x` of JavaScript, negated: the values that pass `if (!x)`.
FalsyStrict(x) == x.t = "undefined"
Falsy(x) ==
    \/ x.t \in {"undefined", "null"}
    \/ x.t = "number" /\ x.v = 0
    \/ x.t = "string" /\ x.v = <<>>

\* String.prototype.trim: strips leading and trailing white space.
IsSpace(ch) == ch \in {" ", "\n"}
RECURSIVE TrimStart(_)
TrimStart(s) ==
    IF s # <<>> /\ IsSpace(Head(s)) THEN TrimStart(Tail(s)) ELSE s
RECURSIVE TrimEnd(_)
TrimEnd(s) ==
    IF s # <<>> /\ IsSpace(s[Len(s)]) THEN TrimEnd(SubSeq(s, 1, Len(s) - 1)) ELSE s
TrimNoEnd(s) == TrimStart(s)
Trim(s) == TrimEnd(TrimStart(s))

\* -------------------------------------------------- process configuration
\* process.env values: a variable is either unset or a string.
Unset == "<unset>"
ProjectIds == {Unset, "", "my-project"}
CredentialBlobs == {Unset, "", "{not json", "{\"client_email\":\"x\"}"}
EnvFalsy(v) == v \in {Unset, ""}
\* JSON.parse(CREDENTIALS_JSON) succeeds only on JSON text.
JSONParses(v) == v = "{\"client_email\":\"x\"}"

\* the startup check of lines 13-16
ConfigMissingAnd(p, cr) == EnvFalsy(p) /\ EnvFalsy(cr)
ConfigMissing(p, cr) == EnvFalsy(p) \/ EnvFalsy(cr)

VARIABLES
    PROJECT_ID,        \* process.env.GOOGLE_PROJECT_ID
    CREDENTIALS_JSON,  \* process.env.GOOGLE_CREDENTIALS_JSON
    globalWebSocket,   \* does the runtime define a global `WebSocket`?
    proc,              \* "starting" | "exited" | "crashed" | "listening"
    logs               \* console output, as a set of <<source, id, line>>

\* POST /api/suggest, one entry per request
VARIABLES
    reqState,          \* "none" | "awaiting" (generateContent pending) | "done"
    reqText,           \* req.body.text
    calls,             \* prompts handed to suggestionModel.generateContent
    outcome,           \* what the pending generateContent call settled with
    responses          \* responses written to res, in order

\* the WebSocket relay, one entry per browser connection / backend stream
VARIABLES
    wsState,           \* ws.readyState: "NONE" (not connected yet) | "OPEN" | "CLOSING" | "CLOSED"
    closedBy,          \* who started the close of ws: "none" | "browser" | "server"
    closeCode,         \* status of the close frame: "none" | "no status" | "client"
    pc,                \* the connection handler: "idle" | "startChat" | "sendMessageStream" | "returned"
    geminiStream,      \* the handler's geminiStream: a stream id, 0 while unset
    loop,              \* the for-await task: "none" | "running" | "ended" | "caught"
    listeners,         \* events of ws the handler has subscribed to
    sent,              \* frames passed to ws.send, in order
    dispatched,        \* frames handed to the 'message' listener, in order
    streamState,       \* backend stream: "unused" | "open" | "ended" | "errored"
    emitted,           \* items the backend stream produced, in order
    audioChunks        \* audio chunks the backend stream received, in order

procVars == <<PROJECT_ID, CREDENTIALS_JSON, globalWebSocket, proc>>
relayVars == <<wsState, closedBy, closeCode, pc, geminiStream, loop, listeners, sent,
               dispatched, streamState, emitted, audioChunks>>
vars == <<PROJECT_ID, CREDENTIALS_JSON, globalWebSocket, proc, logs,
          reqState, reqText, calls, outcome, responses,
          wsState, closedBy, closeCode, pc, geminiStream, loop, listeners, sent,
          dispatched, streamState, emitted, audioChunks>>
suggestVars == <<reqState, reqText, calls, outcome, responses>>

\* ------------------------------------------------------ startup (1-34,106)
Startup ==
    /\ proc = "starting"
    /\ IF ConfigMissing(PROJECT_ID, CREDENTIALS_JSON)
         THEN /\ proc' = "exited"                       \* process.exit(1)
              /\ logs' = logs \cup {<<"process", 0, "config missing">>}
         ELSE IF ~JSONParses(CREDENTIALS_JSON)
         THEN /\ proc' = "crashed"                      \* uncaught SyntaxError
              /\ logs' = logs
         ELSE /\ proc' = "listening"                    \* server.listen(PORT)
              /\ logs' = logs \cup {<<"process", 0, "listening">>}
    /\ UNCHANGED <<PROJECT_ID, CREDENTIALS_JSON, globalWebSocket, suggestVars, relayVars>>

\* ------------------------------------------- POST /api/suggest (88-103)
\* req.body.text values a client can post
BodyTexts ==
    {Undefined, Null, Num(0), Str(<<>>), Str(<<"x">>), Str(<<" ", "x">>)}

\* settlements of generateContent: a rejection with an Error, or a result
\* whose response.candidates holds the text of each candidate's first part
ErrorMessages == {"quota exceeded", "backend unavailable"}
Rejected(m) == [kind |-> "rejected", message |-> m]
Resolved(cands) == [kind |-> "resolved", candidates |-> cands]
Pending == [kind |-> "pending"]
NotCalled == [kind |-> "none"]
CandidateTexts ==
    {Str(<<>>), Str(<<"s">>), Str(<<" ", "s", "\n">>), Undefined}
Settlements ==
    {Rejected(m) : m \in ErrorMessages}
        \cup {Resolved(<<>>)}
        \cup {Resolved(<<t>>) : t \in CandidateTexts}

\* the template literal of line 93
PromptHead == <<"...# talk: \"">>
PromptTail == <<"\" # next topics:">>
ToStr(x) == IF x.t = "string" THEN x.v ELSE <<x.t>>
PromptTrimmed(transcript) == PromptHead \o Trim(ToStr(transcript)) \o PromptTail
Prompt(transcript) == PromptHead \o ToStr(transcript) \o PromptTail

Response(status, body) == [status |-> status, body |-> body]
ErrorBody(m) == [error |-> m]
SuggestionBody(s) == [suggestion |-> s]

\* lines 97-98 on a resolved result: result.response.candidates[0]
\* .content.parts[0].text, then .trim(); a missing candidate or a text
\* that is no string throws a TypeError inside the try block.
ExtractThrows(result) ==
    \/ result.candidates = <<>>
    \/ result.candidates[1].t # "string"
TypeErrorMessage == "Cannot read properties of undefined"

SuggestReceiveBroadcast(r, text) ==
    /\ proc = "listening"
    /\ reqState[r] = "none"
    /\ reqText' = [reqText EXCEPT ![r] = text]
    /\ responses' = [responses EXCEPT
           ![r] = IF Falsy(text) THEN Append(@, Response(400, ErrorBody("No text"))) ELSE @]
    /\ reqState' = [reqState EXCEPT ![r] = IF Falsy(text) THEN "done" ELSE "awaiting"]
    /\ calls' = [calls EXCEPT ![r] = IF Falsy(text) THEN @ ELSE Append(@, Prompt(text))]
    /\ outcome' = [outcome EXCEPT ![r] = IF Falsy(text) THEN @ ELSE Pending]
    /\ sent' = [c \in Conns |->
                   IF wsState[c] = "OPEN" THEN Append(sent[c], <<"suggest">>) ELSE sent[c]]
    /\ UNCHANGED <<logs, procVars, wsState, closedBy, closeCode, pc, geminiStream,
                   loop, listeners, dispatched, streamState, emitted, audioChunks>>

\* lines 88-96: the handler up to its await
SuggestReceive(r, text) ==
    /\ proc = "listening"
    /\ reqState[r] = "none"
    /\ reqText' = [reqText EXCEPT ![r] = text]
    /\ IF Falsy(text)
         THEN /\ responses' = [responses EXCEPT
                     ![r] = Append(@, Response(400, ErrorBody("No text")))]
              /\ reqState' = [reqState EXCEPT ![r] = "done"]
              /\ UNCHANGED <<calls, outcome>>
         ELSE /\ calls' = [calls EXCEPT ![r] = Append(@, Prompt(text))]
              /\ outcome' = [outcome EXCEPT ![r] = Pending]
              /\ reqState' = [reqState EXCEPT ![r] = "awaiting"]
              /\ UNCHANGED responses
    /\ UNCHANGED <<logs, procVars, relayVars>>

\* lines 96-102: generateContent settles and the handler resumes
CatchRetry(r, m) ==
    /\ calls' = [calls EXCEPT ![r] = Append(@, Prompt(reqText[r]))]
    /\ responses' = [responses EXCEPT ![r] = Append(@, Response(500, ErrorBody(m)))]
    /\ logs' = logs \cup {<<"suggest", r, "suggestion AI error">>}
    /\ reqState' = [reqState EXCEPT ![r] = "done"]

CatchNoStatus(r, m) ==
    /\ responses' = [responses EXCEPT ![r] = Append(@, Response(200, ErrorBody(m)))]
    /\ logs' = logs \cup {<<"suggest", r, "suggestion AI error">>}
    /\ reqState' = [reqState EXCEPT ![r] = "done"]
    /\ UNCHANGED calls

\* the catch block of lines 99-102
Catch(r, m) ==
    /\ responses' = [responses EXCEPT ![r] = Append(@, Response(500, ErrorBody(m)))]
    /\ logs' = logs \cup {<<"suggest", r, "suggestion AI error">>}
    /\ reqState' = [reqState EXCEPT ![r] = "done"]
    /\ UNCHANGED calls

SuggestResume(r, result) ==
    /\ proc = "listening"
    /\ reqState[r] = "awaiting"
    /\ outcome' = [outcome EXCEPT ![r] = result]
    /\ IF result.kind = "rejected"
         THEN Catch(r, result.message)
         ELSE IF ExtractThrows(result)
         THEN Catch(r, TypeErrorMessage)
         ELSE /\ responses' = [responses EXCEPT ![r] =
                     Append(@, Response(200, SuggestionBody(Trim(result.candidates[1].v))))]
              /\ reqState' = [reqState EXCEPT ![r] = "done"]
              /\ UNCHANGED <<calls, logs>>
    /\ UNCHANGED <<reqText, procVars, relayVars>>

\* the requests R, posting texts from T, their calls settling within S
SuggestStep(R, T, S) ==
    \/ \E r \in R, text \in T : SuggestReceive(r, text)
    \/ \E r \in R, result \in S : SuggestResume(r, result)

\* ------------------------------------------ WebSocket relay (40-85)
\* a backend stream item: item.candidates?.[0]?.content?.parts?.[0]?.text
TextItem(t) == [text |-> Str(t)]
NoTextItem == [text |-> Undefined]
Items == {NoTextItem, TextItem(<<>>), TextItem(<<"a">>), TextItem(<<"\"">>)}
Frames == {"f1", "f2"}

\* JSON.stringify of a string: quotes and backslashes are escaped
RECURSIVE JSONEscape(_)
JSONEscape(s) ==
    IF s = <<>> THEN <<>>
    ELSE (IF Head(s) \in {"\"", "\\"} THEN <<"\\", Head(s)>> ELSE <<Head(s)>>)
             \o JSONEscape(Tail(s))
JSONQuote(s) == <<"\"">> \o JSONEscape(s) \o <<"\"">>
\* JSON.stringify({ type: 'transcript', data: transcript }) of line 57
Stringify(transcript) ==
    <<"{", "\"type\"", ":">> \o JSONQuote(<<"transcript">>)
        \o <<",", "\"data\"", ":">> \o JSONQuote(transcript) \o <<"}">>

RECURSIVE SumLen(_, _)
SumLen(f, S) ==
    IF S = {} THEN 0
    ELSE LET x == CHOOSE y \in S : TRUE IN Len(f[x]) + SumLen(f, S \ {x})

\* the stream object a handler invocation receives from sendMessageStream
NewStreamShared(c) == 1
NewStream(c) == c

Readers(s) == {c \in Conns : geminiStream[c] = s /\ loop[c] = "running"}

\* ws emits 'close': line 84's listener logs, if it is registered by then
EmitClose(c) ==
    IF "close" \in listeners[c]
      THEN logs' = logs \cup {<<"ws", c, "client disconnected">>}
      ELSE logs' = logs

\* lines 40-45: the upgrade is accepted and the handler runs to its first await
Connect(c) ==
    /\ proc = "listening"
    /\ wsState[c] = "NONE"
    /\ wsState' = [wsState EXCEPT ![c] = "OPEN"]
    /\ pc' = [pc EXCEPT ![c] = "startChat"]
    /\ logs' = logs \cup {<<"ws", c, "client connected">>}
    /\ UNCHANGED <<closedBy, closeCode, geminiStream, loop, listeners, sent, dispatched,
                   streamState, emitted, audioChunks, procVars, suggestVars>>

\* ws.close() of line 82 is called without a code: the close frame carries
\* no status
CloseArgument == "no status"

CatchOpenCloseAll(c) ==
    /\ logs' = logs \cup {<<"ws", c, "Gemini Live API connection error">>}
    /\ wsState' = [d \in Conns |-> IF wsState[d] = "OPEN" THEN "CLOSING" ELSE wsState[d]]
    /\ closedBy' = [d \in Conns |-> IF wsState[d] = "OPEN" THEN "server" ELSE closedBy[d]]
    /\ closeCode' = [d \in Conns |-> IF wsState[d] = "OPEN" THEN CloseArgument ELSE closeCode[d]]
    /\ listeners' = [listeners EXCEPT ![c] = @ \cup {"close"}]
    /\ pc' = [pc EXCEPT ![c] = "returned"]
    /\ UNCHANGED <<geminiStream, loop, sent, dispatched, streamState, emitted,
                   audioChunks, procVars, suggestVars>>

\* lines 80-84: the catch block (log, ws.close()), then line 84
CatchOpen(c) ==
    /\ logs' = logs \cup {<<"ws", c, "Gemini Live API connection error">>}
    /\ wsState' = [wsState EXCEPT ![c] = IF @ = "OPEN" THEN "CLOSING" ELSE @]
    /\ closedBy' = [closedBy EXCEPT ![c] = IF wsState[c] = "OPEN" THEN "server" ELSE @]
    /\ closeCode' = [closeCode EXCEPT ![c] = IF wsState[c] = "OPEN" THEN CloseArgument ELSE @]
    /\ listeners' = [listeners EXCEPT ![c] = @ \cup {"close"}]
    /\ pc' = [pc EXCEPT ![c] = "returned"]
    /\ UNCHANGED <<geminiStream, loop, sent, dispatched, streamState, emitted,
                   audioChunks, procVars, suggestVars>>

\* lines 45-48: startChat settles; on success sendMessageStream('') is awaited
StartChatSettle(c, ok) ==
    /\ pc[c] = "startChat"
    /\ IF ok
         THEN /\ pc' = [pc EXCEPT ![c] = "sendMessageStream"]
              /\ logs' = logs \cup {<<"ws", c, "Gemini Live API started">>}
              /\ UNCHANGED <<wsState, closedBy, closeCode, geminiStream, loop, listeners, sent,
                             dispatched, streamState, emitted, audioChunks,
                             procVars, suggestVars>>
         ELSE CatchOpen(c)

\* lines 48-84: sendMessageStream settles; on success the for-await task is
\* started, the 'message' listener and then the 'close' listener are added
SendMessageStreamSettle(c, ok) ==
    /\ pc[c] = "sendMessageStream"
    /\ IF ok
         THEN /\ geminiStream' = [geminiStream EXCEPT ![c] = NewStream(c)]
              /\ streamState' = [streamState EXCEPT ![NewStream(c)] = "open"]
              /\ loop' = [loop EXCEPT ![c] = "running"]
              /\ listeners' = [listeners EXCEPT ![c] = @ \cup {"message", "close"}]
              /\ pc' = [pc EXCEPT ![c] = "returned"]
              /\ UNCHANGED <<wsState, closedBy, closeCode, sent, dispatched, emitted,
                             audioChunks, logs, procVars, suggestVars>>
         ELSE CatchOpen(c)

\* line 56, where `WebSocket` is defined: ws.readyState === WebSocket.OPEN
SocketOpenAlways(c) == TRUE
SocketOpen(c) == wsState[c] = "OPEN"

\* lines 53-60: the stream yields `item` to the for-await task of c
DownstreamItem(c, item) ==
    /\ loop[c] = "running"
    /\ streamState[geminiStream[c]] = "open"
    /\ SumLen(emitted, Streams) < MaxItems
    /\ emitted' = [emitted EXCEPT ![geminiStream[c]] = Append(@, item)]
    /\ IF Falsy(item.text)
         THEN UNCHANGED <<sent, loop, logs>>
         ELSE IF ~globalWebSocket
         THEN \* `WebSocket` is no binding of the module: ReferenceError, line 61
              /\ loop' = [loop EXCEPT ![c] = "caught"]
              /\ logs' = logs \cup {<<"ws", c, "Gemini stream receive error">>}
              /\ UNCHANGED sent
         ELSE IF SocketOpen(c)
         THEN /\ sent' = [sent EXCEPT ![c] = Append(@, Stringify(item.text.v))]
              /\ UNCHANGED <<loop, logs>>
         ELSE UNCHANGED <<sent, loop, logs>>
    /\ UNCHANGED <<wsState, closedBy, closeCode, pc, geminiStream, listeners, dispatched,
                   streamState, audioChunks, procVars, suggestVars>>

\* the backend produces an item on a stream nobody iterates any more
BackendEmitUnread(s, item) ==
    /\ streamState[s] = "open"
    /\ Readers(s) = {}
    /\ SumLen(emitted, Streams) < MaxItems
    /\ emitted' = [emitted EXCEPT ![s] = Append(@, item)]
    /\ UNCHANGED <<wsState, closedBy, closeCode, pc, geminiStream, loop, listeners, sent,
                   dispatched, streamState, audioChunks, logs, procVars, suggestVars>>

\* the stream's item sequence ends: for-await completes (line 60)
StreamEnd(s) ==
    /\ streamState[s] = "open"
    /\ streamState' = [streamState EXCEPT ![s] = "ended"]
    /\ loop' = [c \in Conns |-> IF c \in Readers(s) THEN "ended" ELSE loop[c]]
    /\ UNCHANGED <<wsState, closedBy, closeCode, pc, geminiStream, listeners, sent, dispatched,
                   emitted, audioChunks, logs, procVars, suggestVars>>

\* reading the stream throws: the catch of lines 61-63 logs
StreamError(s) ==
    /\ streamState[s] = "open"
    /\ streamState' = [streamState EXCEPT ![s] = "errored"]
    /\ loop' = [c \in Conns |-> IF c \in Readers(s) THEN "caught" ELSE loop[c]]
    /\ logs' = logs \cup {<<"ws", c, "Gemini stream receive error">> : c \in Readers(s)}
    /\ UNCHANGED <<wsState, closedBy, closeCode, pc, geminiStream, listeners, sent, dispatched,
                   emitted, audioChunks, procVars, suggestVars>>

\* lines 67-78: the 'message' listener; its body is comments only
OnMessage(c, message) ==
    UNCHANGED audioChunks

\* the browser sends a frame; ws emits 'message' to the listener, if any
BrowserSend(c, message) ==
    /\ wsState[c] = "OPEN"
    /\ SumLen(dispatched, Conns) < MaxFrames
    /\ IF "message" \in listeners[c]
         THEN /\ dispatched' = [dispatched EXCEPT ![c] = Append(@, message)]
              /\ OnMessage(c, message)
         ELSE UNCHANGED <<dispatched, audioChunks>>
    /\ UNCHANGED <<wsState, closedBy, closeCode, pc, geminiStream, loop, listeners, sent,
                   streamState, emitted, logs, procVars, suggestVars>>

\* the browser closes the connection; ws emits 'close'
BrowserClose(c) ==
    /\ wsState[c] = "OPEN"
    /\ wsState' = [wsState EXCEPT ![c] = "CLOSED"]
    /\ closedBy' = [closedBy EXCEPT ![c] = "browser"]
    /\ closeCode' = [closeCode EXCEPT ![c] = "client"]
    /\ EmitClose(c)
    /\ UNCHANGED <<pc, geminiStream, loop, listeners, sent, dispatched,
                   streamState, emitted, audioChunks, procVars, suggestVars>>

\* the closing handshake started by ws.close() completes; ws emits 'close'
WsCloseComplete(c) ==
    /\ wsState[c] = "CLOSING"
    /\ wsState' = [wsState EXCEPT ![c] = "CLOSED"]
    /\ EmitClose(c)
    /\ UNCHANGED <<closedBy, closeCode, pc, geminiStream, loop, listeners, sent, dispatched,
                   streamState, emitted, audioChunks, procVars, suggestVars>>

\* connections C living and dying, without data
LifecycleStep(C) ==
    \/ \E c \in C : Connect(c)
    \/ \E c \in C, ok \in BOOLEAN : StartChatSettle(c, ok)
    \/ \E c \in C, ok \in BOOLEAN : SendMessageStreamSettle(c, ok)
    \/ \E s \in Streams : StreamEnd(s)
    \/ \E s \in Streams : StreamError(s)
    \/ \E c \in C : BrowserClose(c)
    \/ \E c \in C : WsCloseComplete(c)

\* backend items from I flowing down the streams of C
DownStep(C, I) ==
    \/ \E c \in C, item \in I : DownstreamItem(c, item)
    \/ \E s \in Streams, item \in I : BackendEmitUnread(s, item)

\* browser frames from F flowing up the connections C
UpStep(C, F) ==
    \E c \in C, message \in F : BrowserSend(c, message)

InitProc ==
    /\ PROJECT_ID \in ProjectIds
    /\ CREDENTIALS_JSON \in CredentialBlobs
    /\ globalWebSocket \in BOOLEAN
    /\ proc = "starting"
    /\ logs = {}

InitSuggest ==
    /\ reqState = [r \in Reqs |-> "none"]
    /\ reqText = [r \in Reqs |-> Undefined]
    /\ calls = [r \in Reqs |-> <<>>]
    /\ outcome = [r \in Reqs |-> NotCalled]
    /\ responses = [r \in Reqs |-> <<>>]

InitRelay ==
    /\ wsState = [c \in Conns |-> "NONE"]
    /\ closedBy = [c \in Conns |-> "none"]
    /\ closeCode = [c \in Conns |-> "none"]
    /\ pc = [c \in Conns |-> "idle"]
    /\ geminiStream = [c \in Conns |-> 0]
    /\ loop = [c \in Conns |-> "none"]
    /\ listeners = [c \in Conns |-> {}]
    /\ sent = [c \in Conns |-> <<>>]
    /\ dispatched = [c \in Conns |-> <<>>]
    /\ streamState = [s \in Streams |-> "unused"]
    /\ emitted = [s \in Streams |-> <<>>]
    /\ audioChunks = [s \in Streams |-> <<>>]

Init == InitProc /\ InitSuggest /\ InitRelay

\* the whole server: every action on every input
Next ==
    \/ Startup
    \/ SuggestStep(Reqs, BodyTexts, Settlements)
    \/ LifecycleStep(Conns)
    \/ DownStep(Conns, Items)
    \/ UpStep(Conns, Frames)
Spec == Init /\ [][Next]_vars

\* The specifications checked are restrictions of Spec to some clients and
\* some inputs.

\* the suggestion endpoint on its own, every input
NextSuggest == Startup \/ SuggestStep(Reqs, BodyTexts, Settlements)
SpecSuggest == Init /\ [][NextSuggest]_vars

\* one session on its own, every input
NextSession ==
    \/ Startup
    \/ LifecycleStep({1})
    \/ DownStep({1}, Items)
    \/ UpStep({1}, Frames)
SpecSession == Init /\ [][NextSession]_vars

\* one session whose pending steps are taken: an awaited backend call
\* settles, and a closing handshake completes (or times out); the browser
\* and the backend stream stay free to do nothing
SessionProgress ==
    \E c \in {1} :
        \/ \E ok \in BOOLEAN : StartChatSettle(c, ok)
        \/ \E ok \in BOOLEAN : SendMessageStreamSettle(c, ok)
        \/ WsCloseComplete(c)
SpecSessionFair == SpecSession /\ WF_vars(SessionProgress)

\* one session and one request side by side, every input
NextFlows ==
    \/ Startup
    \/ SuggestStep({1}, BodyTexts, Settlements)
    \/ LifecycleStep({1})
    \/ DownStep({1}, Items)
    \/ UpStep({1}, Frames)
SpecFlows == Init /\ [][NextFlows]_vars

\* concurrent sessions and their streams, two kinds of transcript
NextRelay ==
    \/ Startup
    \/ LifecycleStep(Conns)
    \/ DownStep(Conns, {TextItem(<<"a">>), TextItem(<<"\"">>)})
SpecRelay == Init /\ [][NextRelay]_vars

\* concurrent sessions and requests opening, failing and closing, no data
NextClients ==
    \/ Startup
    \/ SuggestStep(Reqs, {Undefined, Str(<<"x">>)},
                   {Rejected("quota exceeded"), Resolved(<<Str(<<"s">>)>>)})
    \/ LifecycleStep(Conns)
SpecClients == Init /\ [][NextClients]_vars

\* ================================================================ claims

\* ---- helpers of the claims: what a browser reads off a frame
\* the characters of a JSON string literal starting at f[i], up to its
\* closing quote: [val, next]
RECURSIVE ReadString(_, _, _)
ReadString(f, i, acc) ==
    IF i > Len(f) THEN [val |-> acc, next |-> i]
    ELSE IF f[i] = "\"" THEN [val |-> acc, next |-> i + 1]
    ELSE IF f[i] = "\\" /\ i < Len(f) THEN ReadString(f, i + 2, Append(acc, f[i + 1]))
    ELSE ReadString(f, i + 1, Append(acc, f[i]))

Invalid == [type |-> "invalid", data |-> <<>>]
\* JSON.parse of a frame {"type":<string>,"data":<string>}
ParseFrame(f) ==
    IF Len(f) < 4 \/ SubSeq(f, 1, 4) # <<"{", "\"type\"", ":", "\"">> THEN Invalid
    ELSE LET ty == ReadString(f, 5, <<>>) IN
         IF ty.next + 3 > Len(f)
              \/ SubSeq(f, ty.next, ty.next + 3) # <<",", "\"data\"", ":", "\"">>
              \/ Len(ty.val) # 1
         THEN Invalid
         ELSE LET da == ReadString(f, ty.next + 4, <<>>) IN
              IF da.next # Len(f) \/ f[Len(f)] # "}" THEN Invalid
              ELSE [type |-> ty.val[1], data |-> da.val]

RECURSIVE IsSubseq(_, _)
IsSubseq(a, b) ==
    IF a = <<>> THEN TRUE
    ELSE IF b = <<>> THEN FALSE
    ELSE IF Head(a) = Head(b) THEN IsSubseq(Tail(a), Tail(b))
    ELSE IsSubseq(a, Tail(b))

TextBearing(item) == item.text.t = "string" /\ item.text.v # <<>>
\* the transcript texts a stream emitted, in emission order
EmittedTexts(s) ==
    LET tb == SelectSeq(emitted[s], TextBearing)
    IN [i \in 1..Len(tb) |-> tb[i].text.v]
\* the frames a browser received, parsed
Received(c) == [i \in 1..Len(sent[c]) |-> ParseFrame(sent[c][i])]
ReceivedData(c) == [i \in 1..Len(sent[c]) |-> ParseFrame(sent[c][i]).data]

ReachedActive(c) == geminiStream[c] # 0

\* C1: once the browser WebSocket of a session that reached ACTIVE has
\* closed (its 'close' event was handled), the paired backend stream is no
\* longer open.
C1_NoOrphanedStream ==
    \A c \in Conns :
        (ReachedActive(c) /\ <<"ws", c, "client disconnected">> \in logs)
            => streamState[geminiStream[c]] # "open"

\* C2: when the backend stream of an ACTIVE session has ended normally (the
\* for-await loop completed), the browser WebSocket is closed or closing.
C2_StreamEndClosesSocket ==
    \A c \in Conns : loop[c] = "ended" => wsState[c] \in {"CLOSING", "CLOSED"}

\* C3: the frames a browser received are transcript frames whose texts are a
\* subsequence, in emission order, of the texts the backend stream emitted;
\* while the WebSocket is still open, every text emitted so far was delivered.
C3_TranscriptsInOrder ==
    \A c \in Conns :
        ReachedActive(c) =>
            /\ \A i \in 1..Len(sent[c]) : Received(c)[i].type = "transcript"
            /\ IsSubseq(ReceivedData(c), EmittedTexts(geminiStream[c]))
            /\ wsState[c] = "OPEN" => ReceivedData(c) = EmittedTexts(geminiStream[c])

\* C4: every frame handed to the 'message' listener of an ACTIVE session has
\* reached the session's backend stream as one audio chunk (none dropped).
C4_FramesForwarded ==
    \A c \in Conns :
        ReachedActive(c) => Len(audioChunks[geminiStream[c]]) = Len(dispatched[c])

\* ---- helpers of the claims: the suggestion endpoint
\* a text that is missing or empty
MissingOrEmpty(x) == x \in {Undefined, Null, Num(0), Str(<<>>)}
NonEmptyText(x) == x.t = "string" /\ x.v # <<>>
Handled(r) == reqState[r] = "done"
\* t is s without its leading and trailing white space
IsTrimOf(t, s) ==
    /\ \E i \in 0..Len(s), j \in 0..Len(s) :
          /\ i + j <= Len(s)
          /\ t = SubSeq(s, i + 1, Len(s) - j)
          /\ \A k \in 1..i : s[k] \in {" ", "\n"}
          /\ \A k \in (Len(s) - j + 1)..Len(s) : s[k] \in {" ", "\n"}
    /\ t # <<>> => (t[1] \notin {" ", "\n"} /\ t[Len(t)] \notin {" ", "\n"})

\* C5: a request whose text is missing or empty is answered 400
\* {error:'No text'}, once, and no backend call is made for it.
C5_MissingTextIs400 ==
    \A r \in Reqs :
        (reqState[r] # "none" /\ MissingOrEmpty(reqText[r])) =>
            /\ responses[r] = <<[status |-> 400, body |-> [error |-> "No text"]]>>
            /\ calls[r] = <<>>

C5_Witness ==
    \E r \in Reqs : Handled(r) /\ reqText[r] = Str(<<>>) /\ Len(responses[r]) = 1

\* C6: a request with valid text whose backend call was rejected is answered
\* 500 with the rejection's message, and exactly one backend call was made.
C6_BackendFailureIs500 ==
    \A r \in Reqs :
        (Handled(r) /\ outcome[r].kind = "rejected") =>
            /\ responses[r] =
                  <<[status |-> 500, body |-> [error |-> outcome[r].message]]>>
            /\ Len(calls[r]) = 1

C6_Witness ==
    \E r \in Reqs :
        /\ Handled(r)
        /\ outcome[r] = Rejected("quota exceeded")
        /\ NonEmptyText(reqText[r])

\* C7 as claimed: a request with non-empty text s whose backend call
\* succeeded made exactly one call, with s inside the template, and is
\* answered 200.
C7_SuccessIs200 ==
    \A r \in Reqs :
        (Handled(r) /\ NonEmptyText(reqText[r]) /\ outcome[r].kind = "resolved") =>
            /\ calls[r] = <<PromptHead \o reqText[r].v \o PromptTail>>
            /\ Len(responses[r]) = 1
            /\ responses[r][1].status = 200

\* C7, amended: a request with non-empty text s whose backend call resolved
\* with a first candidate carrying a text made exactly one call, with s
\* verbatim inside the template, and is answered 200 with that text trimmed.
C7_SuccessWithTextIs200 ==
    \A r \in Reqs :
        ( /\ Handled(r)
          /\ NonEmptyText(reqText[r])
          /\ outcome[r].kind = "resolved"
          /\ outcome[r].candidates # <<>>
          /\ outcome[r].candidates[1].t = "string" ) =>
            /\ calls[r] = <<PromptHead \o reqText[r].v \o PromptTail>>
            /\ Len(responses[r]) = 1
            /\ responses[r][1].status = 200
            /\ DOMAIN responses[r][1].body = {"suggestion"}
            /\ IsTrimOf(responses[r][1].body.suggestion, outcome[r].candidates[1].v)

C7_Witness ==
    \E r \in Reqs :
        /\ Handled(r)
        /\ reqText[r] = Str(<<" ", "x">>)
        /\ outcome[r] = Resolved(<<Str(<<" ", "s", "\n">>)>>)
        /\ responses[r][1].body = [suggestion |-> <<"s">>]

\* C8: the server listens only with the project identifier and the
\* credentials blob present; with either absent the process has exited once
\* startup is over, and nothing was accepted.
C8_NoListenerWithoutConfig ==
    /\ proc = "listening" => (PROJECT_ID # Unset /\ CREDENTIALS_JSON # Unset)
    /\ (proc # "starting" /\ (PROJECT_ID = Unset \/ CREDENTIALS_JSON = Unset))
          => proc = "exited"
    /\ proc # "listening" =>
          /\ \A c \in Conns : wsState[c] = "NONE"
          /\ \A r \in Reqs : reqState[r] = "none"

C8_Witness ==
    /\ proc = "exited"
    /\ PROJECT_ID = Unset
    /\ CREDENTIALS_JSON # Unset
    /\ <<"process", 0, "config missing">> \in logs

\* ---- helpers of the claims: concurrent clients
OpenedStreams == {s \in Streams : streamState[s] # "unused"}
Holders(s) == {c \in Conns : geminiStream[c] = s}
FramesOf(s) == {Stringify(emitted[s][i].text.v) : i \in 1..Len(emitted[s])}

\* C9: every opened backend stream is held by exactly one connection, no two
\* connections hold the same stream, and the frames sent to a connection come
\* from the items of its own stream only.
C9_OneStreamPerConnection ==
    /\ \A s \in OpenedStreams : Cardinality(Holders(s)) = 1
    /\ \A c, d \in Conns :
          (c # d /\ geminiStream[c] # 0) => geminiStream[c] # geminiStream[d]
    /\ \A c \in Conns :
          IF geminiStream[c] = 0 THEN sent[c] = <<>>
          ELSE /\ Len(sent[c]) <= Len(emitted[geminiStream[c]])
               /\ \A i \in 1..Len(sent[c]) : sent[c][i] \in FramesOf(geminiStream[c])

C9_Witness ==
    \E c, d \in Conns :
        /\ c # d
        /\ loop[c] = "running" /\ loop[d] = "running"
        /\ Len(sent[c]) = 1 /\ Len(sent[d]) = 1
        /\ sent[c] # sent[d]

\* the state of one client
SessionState(c) ==
    <<wsState[c], closedBy[c], closeCode[c], pc[c], geminiStream[c], loop[c], listeners[c],
      sent[c], dispatched[c]>>
StreamStateOf(s) == <<streamState[s], emitted[s], audioChunks[s]>>
RequestState(r) == <<reqState[r], reqText[r], calls[r], outcome[r], responses[r]>>

\* the failures of one client, as steps
OpenFails(c) ==
    /\ pc[c] \in {"startChat", "sendMessageStream"}
    /\ pc'[c] = "returned"
    /\ geminiStream'[c] = 0
DownstreamFails(c) == loop[c] = "running" /\ loop'[c] = "caught"
SuggestFails(r) ==
    /\ reqState[r] = "awaiting"
    /\ reqState'[r] = "done"
    /\ responses'[r][Len(responses'[r])].status = 500

OthersUntouched(C, R) ==
    /\ \A d \in Conns \ C : SessionState(d)' = SessionState(d)
    /\ \A s \in Streams \ {geminiStream[c] : c \in C} :
          StreamStateOf(s)' = StreamStateOf(s)
    /\ \A q \in Reqs \ R : RequestState(q)' = RequestState(q)
    /\ proc' = proc

\* C10: a step in which one client's backend open fails, its downstream loop
\* fails, or its suggestion request fails leaves every other session, stream
\* and request as it was; and no step ends a listening process.
C10_FailuresAreConfined ==
    [][ /\ \A c \in Conns :
             (OpenFails(c) \/ DownstreamFails(c)) => OthersUntouched({c}, {})
        /\ \A r \in Reqs : SuggestFails(r) => OthersUntouched({}, {r})
        /\ proc = "listening" => proc' = "listening" ]_vars

C10_Witness ==
    \E c, d \in Conns, r, q \in Reqs :
        /\ c # d /\ r # q
        /\ proc = "listening"
        /\ pc[c] = "returned" /\ geminiStream[c] = 0
        /\ loop[d] = "running" /\ wsState[d] = "OPEN"
        /\ Handled(r) /\ responses[r][1].status = 500
        /\ reqState[q] = "awaiting"

\* ---- helpers of the claims: the life of one session
OpenFailed(c) == pc[c] = "returned" /\ geminiStream[c] = 0
\* a close frame that tells the browser of an error
IsErrorStatus(code) == code \notin {"none", "no status", "client"}

\* C11: after the backend open of a CONNECTING session failed, the WebSocket
\* is closing or closed, a close started by the server carries an error
\* status, and neither the downstream loop nor the 'message' listener exists.
C11_OpenFailureClosesWithError ==
    \A c \in Conns :
        OpenFailed(c) =>
            /\ wsState[c] \in {"CLOSING", "CLOSED"}
            /\ closedBy[c] = "server" => IsErrorStatus(closeCode[c])
            /\ loop[c] = "none"
            /\ "message" \notin listeners[c]

\* C12: after reading the backend stream of an ACTIVE session raised an
\* error, the error is logged, the loop is over (no retry) and the browser
\* WebSocket is closing or closed.
C12_ReadErrorEndsSession ==
    \A c \in Conns :
        (ReachedActive(c) /\ streamState[geminiStream[c]] = "errored") =>
            /\ <<"ws", c, "Gemini stream receive error">> \in logs
            /\ loop[c] = "caught"
            /\ wsState[c] \in {"CLOSING", "CLOSED"}

\* C13: a frame is passed to ws.send only in a step that finds the WebSocket
\* OPEN and leaves it OPEN, one frame at a time; once the WebSocket is not
\* open, nothing is sent on it any more.
C13_SendOnlyWhenOpen ==
    [][ \A c \in Conns :
            sent'[c] # sent[c] =>
                /\ wsState[c] = "OPEN"
                /\ wsState'[c] = "OPEN"
                /\ Len(sent'[c]) = Len(sent[c]) + 1
                /\ SubSeq(sent'[c], 1, Len(sent[c])) = sent[c] ]_vars

\* one text was sent, the browser closed, and a second text arrived after
C13_Witness ==
    \E c \in Conns :
        /\ ReachedActive(c)
        /\ wsState[c] = "CLOSED"
        /\ Len(sent[c]) = 1
        /\ Len(EmittedTexts(geminiStream[c])) = 2

\* the status of a session, read off its two endpoints
StreamOpen(c) == geminiStream[c] # 0 /\ streamState[geminiStream[c]] = "open"
Status(c) ==
    IF wsState[c] = "NONE" THEN "NONE"
    ELSE IF wsState[c] = "CLOSED" /\ pc[c] = "returned" /\ ~StreamOpen(c) THEN "CLOSED"
    ELSE IF wsState[c] # "OPEN" \/ OpenFailed(c) \/ (ReachedActive(c) /\ ~StreamOpen(c))
    THEN "CLOSING"
    ELSE IF pc[c] \in {"startChat", "sendMessageStream"} THEN "CONNECTING"
    ELSE "ACTIVE"
Rank(st) ==
    CASE st = "NONE" -> 0
      [] st = "CONNECTING" -> 1
      [] st = "ACTIVE" -> 2
      [] st = "CLOSING" -> 3
      [] st = "CLOSED" -> 4
EndpointDown(c) == Status(c) \in {"CLOSING", "CLOSED"}

\* C14: the status of a session never moves backwards and CLOSED is final;
\* and a session one of whose endpoints closed or failed eventually is
\* CLOSED, with the WebSocket closed and no backend stream open.
C14_ForwardToClosed ==
    /\ [][ \A c \in Conns : Rank(Status(c))' >= Rank(Status(c)) ]_vars
    /\ \A c \in Conns : EndpointDown(c) ~> (Status(c) = "CLOSED")

\* C15: when the browser disconnected while the session was CONNECTING (the
\* 'close' listener was not registered yet, so the close went unlogged), no
\* backend stream is open for that connection once the handler has returned.
C15_NoStreamForClosedConnection ==
    \A c \in Conns :
        ( /\ pc[c] = "returned"
          /\ wsState[c] = "CLOSED"
          /\ closedBy[c] = "browser"
          /\ <<"ws", c, "client disconnected">> \notin logs ) => ~StreamOpen(c)

\* ---- helpers of the claims: the two flows
RequestStep == \E r \in Reqs : RequestState(r)' # RequestState(r)
SessionStep ==
    \/ \E c \in Conns : SessionState(c)' # SessionState(c)
    \/ \E s \in Streams : StreamStateOf(s)' # StreamStateOf(s)

\* C16: a step of a suggestion request leaves every session and backend
\* stream as it was and sends no frame; a step of a session or of its stream
\* leaves every request, its backend call and its response as they were.
C16_FlowsAreIndependent ==
    [][ /\ RequestStep =>
              /\ \A c \in Conns : SessionState(c)' = SessionState(c)
              /\ \A s \in Streams : StreamStateOf(s)' = StreamStateOf(s)
              /\ sent' = sent
        /\ SessionStep => \A r \in Reqs : RequestState(r)' = RequestState(r) ]_vars

\* a request in flight while a session delivered a frame and closed
C16_Witness ==
    \E c \in Conns, r \in Reqs :
        /\ reqState[r] = "awaiting"
        /\ Len(sent[c]) = 1
        /\ wsState[c] = "CLOSED"

\* a backend call that returned without error but without a candidate text
NoCandidateText(o) ==
    /\ o.kind = "resolved"
    /\ \/ o.candidates = <<>>
       \/ o.candidates[1].t # "string"

\* C17: a request has no response while its backend call is pending and
\* exactly one, of status 200, 400 or 500, once the handler is done; a call
\* that resolved without a candidate text is answered 500.
C17_ExactlyOneResponse ==
    \A r \in Reqs :
        /\ reqState[r] \in {"none", "awaiting"} => responses[r] = <<>>
        /\ Handled(r) =>
              /\ Len(responses[r]) = 1
              /\ responses[r][1].status \in {200, 400, 500}
              /\ NoCandidateText(outcome[r]) => responses[r][1].status = 500

C17_Witness ==
    \E r, q \in Reqs :
        /\ Handled(r) /\ outcome[r] = Resolved(<<>>)
        /\ Handled(q) /\ outcome[q] = Resolved(<<Undefined>>)
        /\ responses[r][1].status = 500
        /\ responses[q][1].status = 500

\* ---- helpers of the claims: items without text, items nobody can receive
\* a text-bearing item was emitted after an item without text
TextAfterTextless(s) ==
    \E i, j \in 1..Len(emitted[s]) :
        i < j /\ ~TextBearing(emitted[s][i]) /\ TextBearing(emitted[s][j])

\* C18: there are never more frames than text-bearing items; an item without
\* text (or with empty text) leaves the loop running; and on an open
\* WebSocket the text-bearing items that follow it are delivered.
C18_TextlessItemsAreSkipped ==
    \A c \in Conns :
        ReachedActive(c) =>
            /\ Len(sent[c]) <= Len(EmittedTexts(geminiStream[c]))
            /\ (StreamOpen(c) /\ EmittedTexts(geminiStream[c]) = <<>>)
                  => loop[c] = "running"
            /\ (wsState[c] = "OPEN" /\ TextAfterTextless(geminiStream[c]))
                  => ReceivedData(c) = EmittedTexts(geminiStream[c])

\* C19: an item that arrives while the WebSocket of its session is not OPEN
\* is sent to nobody in that step, nothing is sent on that WebSocket later;
\* and the loop stops only when its stream has ended or failed.
C19_DiscardAndKeepConsuming ==
    [][ \A c \in Conns :
          /\ wsState[c] # "OPEN" => sent'[c] = sent[c]
          /\ (ReachedActive(c) /\ wsState[c] # "OPEN"
                /\ emitted'[geminiStream[c]] # emitted[geminiStream[c]])
                => sent' = sent
          /\ (ReachedActive(c) /\ wsState[c] # "OPEN" /\ loop[c] = "running"
                /\ loop'[c] # "running")
                => streamState'[geminiStream[c]] \in {"ended", "errored"} ]_vars

====
